---------------------------- MODULE Spec2Model ----------------------------
(***************************************************************************)
(* Model of the risk-prediction code of the student-tracking application:  *)
(*   predict.py    rule-based predict_student_risk over a dict             *)
(*   predictor.py  predict_student_risk (pickled model, rule fallback),    *)
(*                 calculate_risk_level, update_all_student_risks          *)
(*   train.py      train_model                                             *)
(*   app.py        api_update_risks                                        *)
(*                                                                         *)
(* Python values are records [t, v]: t is the Python type of the value     *)
(* and v its numeric value (0 when it has none).  Calls are recorded in    *)
(* ret: the function called, whether it returned or raised, and the value. *)
(***************************************************************************)
EXTENDS Integers, FiniteSets, Sequences, TLC

VARIABLES
    student_data,   \* argument of predict.predict_student_risk (a dict, or not)
    student,        \* argument of predictor.predict_student_risk / calculate_risk_level
    modelFile,      \* contents of data/trained_model.pkl
    ret,            \* outcome of the last call
    roster,         \* the rows of the students table, in query order
    dbRisk,         \* the committed risk_level of each row
    upd,            \* the running update_all_student_risks request, if any
    resp,           \* the last response of api_update_risks
    train,          \* the running train_model, if any
    featureInfoFile,\* contents of data/feature_info.pkl
    runs,           \* the overlapping api_update_risks requests, one per thread
    args,           \* arguments of the helper function called
    notify          \* a row of the notifications table, its student, the clock

callVars == <<student_data, student, ret, args>>
dbVars   == <<roster, dbRisk, upd, resp, runs, notify>>
vars == <<student_data, student, modelFile, ret, roster, dbRisk, upd, resp,
          train, featureInfoFile, runs, args, notify>>

---------------------------------------------------------------------------
(* Bounds of the model *)

\* scores run over 0..MaxScore
MaxScore == 100

\* the students table holds at most NumStudents rows
NumStudents == 2

\* at most NumWorkers requests of api_update_risks overlap
NumWorkers == 2

\* a student has at most MaxLen grades and MaxLen attendance records
MaxLen == 3

\* a student is enrolled in at most MaxCourses courses
MaxCourses == 2

\* dates are the days 0..MaxDay
MaxDay == 4

\* the clock of datetime.utcnow() runs over 1..MaxTime
MaxTime == 4

---------------------------------------------------------------------------
(* Python values *)

PyInt(n)  == [t |-> "int",    v |-> n]
PyStr(n)  == [t |-> "str",    v |-> n]   \* a string that spells the number n
PyText    == [t |-> "text",   v |-> 0]   \* a string that spells no number
PyNone    == [t |-> "None",   v |-> 0]
PyBigInt  == [t |-> "bigint", v |-> 0]   \* an int beyond the range of float
PyNaN     == [t |-> "nan",    v |-> 0]   \* float('nan')
Missing   == [t |-> "missing", v |-> 0]  \* the key is not in the dict

Scores == 0 .. MaxScore

\* the scores next to a threshold of either rule set
EdgeScores == {0, 49, 50, 59, 60, 69, 70, 74, 75, 79, 80}

Numbers == {PyInt(n) : n \in Scores}

DirtyValues == {PyStr(n) : n \in EdgeScores}
                 \cup {PyText, PyNone, PyBigInt, PyNaN, Missing}

\* a label returned as a Python str
StrResult(s) == [kind |-> "return", type |-> "str", value |-> s]
Raised(e)    == [kind |-> "raise",  type |-> "exception", value |-> e]

Labels == {"Low Risk", "Medium Risk", "High Risk"}

---------------------------------------------------------------------------
(* predict.py *)

\* dict.get(key, default)
DictGet(d, key, default) ==
    IF d[key].t = "missing" THEN default ELSE d[key]

\* float(x): the converted value, or the exception float raises
Float(x) ==
    CASE x.t = "int"    -> [exc |-> "", v |-> x.v, nan |-> FALSE]
      [] x.t = "str"    -> [exc |-> "", v |-> x.v, nan |-> FALSE]
      [] x.t = "nan"    -> [exc |-> "", v |-> 0,   nan |-> TRUE]
      [] x.t = "text"   -> [exc |-> "ValueError",    v |-> 0, nan |-> FALSE]
      [] x.t = "None"   -> [exc |-> "TypeError",     v |-> 0, nan |-> FALSE]
      [] x.t = "bigint" -> [exc |-> "OverflowError", v |-> 0, nan |-> FALSE]

\* try: f = float(x)  except (ValueError, TypeError): f = 0
FloatOrZero(x) ==
    LET f == Float(x) IN
    IF f.exc \in {"ValueError", "TypeError"}
    THEN [exc |-> "", v |-> 0, nan |-> FALSE]
    ELSE f

\* f < n on floats: every comparison with nan is false
Lt(f, n) == ~f.nan /\ f.v < n

HighGrade == 60
HighAttendance == 70
MediumGrade == 75
MediumAttendance == 80

\* the rules of predict.py with the thresholds of predictor.py
RiskRulesLoose(grade, attendance) ==
    IF Lt(grade, 50) \/ Lt(attendance, 60) THEN "High Risk"
    ELSE IF Lt(grade, 70) \/ Lt(attendance, 75) THEN "Medium Risk"
    ELSE "Low Risk"

\* the rules of predict.py with the labels of the first and the last
\* branch exchanged
RiskRulesSwapped(grade, attendance) ==
    IF Lt(grade, HighGrade) \/ Lt(attendance, HighAttendance) THEN "Low Risk"
    ELSE IF Lt(grade, MediumGrade) \/ Lt(attendance, MediumAttendance)
         THEN "Medium Risk"
    ELSE "High Risk"

\* if grade < 60 or attendance < 70 ... elif grade < 75 or attendance < 80 ...
RiskRules(grade, attendance) ==
    IF Lt(grade, HighGrade) \/ Lt(attendance, HighAttendance) THEN "High Risk"
    ELSE IF Lt(grade, MediumGrade) \/ Lt(attendance, MediumAttendance)
         THEN "Medium Risk"
    ELSE "Low Risk"

\* utils.safe_float(value, default=0.0):
\*   try: return float(value)  except (ValueError, TypeError): return default
safe_float(value) ==
    LET f == Float(value) IN
    IF f.exc \in {"ValueError", "TypeError"}
    THEN [kind |-> "return", type |-> "float",
          value |-> [exc |-> "", v |-> 0, nan |-> FALSE]]
    ELSE IF f.exc # ""
         THEN [kind |-> "raise", type |-> "exception", value |-> f]
         ELSE [kind |-> "return", type |-> "float", value |-> f]

\* predict.predict_student_risk(student_data)
predict__predict_student_risk(sd) ==
    IF sd.kind # "dict"
    THEN StrResult("Unknown Risk")      \* .get raises, the outer except returns
    ELSE LET grade      == FloatOrZero(DictGet(sd, "grade", PyInt(0)))
             attendance == FloatOrZero(DictGet(sd, "attendance", PyInt(0)))
         IN  IF grade.exc # "" \/ attendance.exc # ""
             THEN StrResult("Unknown Risk")   \* outer except Exception
             ELSE StrResult(RiskRules(grade, attendance))

---------------------------------------------------------------------------
(* predictor.py: calculate_risk_level *)

\* x < n on a column value: None < n raises TypeError
ColLt(x, n) ==
    IF x.t = "None" THEN "TypeError"
    ELSE IF x.v < n THEN "True" ELSE "False"

\* a or b, left to right: b is evaluated only when a is false
PyOr(a, b) ==
    IF a = "TypeError" THEN "TypeError"
    ELSE IF a = "True" THEN "True"
    ELSE b

\* calculate_risk_level with the thresholds of predict.py
calculate_risk_level_default(s) ==
    LET high == PyOr(ColLt(s.grade_average, HighGrade),
                     ColLt(s.attendance_rate, HighAttendance))
        med  == PyOr(ColLt(s.grade_average, MediumGrade),
                     ColLt(s.attendance_rate, MediumAttendance))
    IN  IF high = "TypeError" THEN Raised("TypeError")
        ELSE IF high = "True" THEN StrResult("High Risk")
        ELSE IF med = "TypeError" THEN Raised("TypeError")
        ELSE IF med = "True" THEN StrResult("Medium Risk")
        ELSE StrResult("Low Risk")

\* calculate_risk_level(student)
calculate_risk_level(s) ==
    LET high == PyOr(ColLt(s.grade_average, 50), ColLt(s.attendance_rate, 60))
        med  == PyOr(ColLt(s.grade_average, 70), ColLt(s.attendance_rate, 75))
    IN  IF high = "TypeError" THEN Raised("TypeError")
        ELSE IF high = "True" THEN StrResult("High Risk")
        ELSE IF med = "TypeError" THEN Raised("TypeError")
        ELSE IF med = "True" THEN StrResult("Medium Risk")
        ELSE StrResult("Low Risk")

---------------------------------------------------------------------------
(* The model file data/trained_model.pkl *)

NoFile      == [kind |-> "absent",  n_features_in |-> 0, classes |-> {}]
CorruptFile == [kind |-> "corrupt", n_features_in |-> 0, classes |-> {}]

\* a classifier written with pickle: the width of the rows it was fitted
\* on and the values its predict can return
Model(n, cs) == [kind |-> "model", n_features_in |-> n, classes |-> cs]

\* a classifier written with joblib.dump
JoblibModel(n, cs) == [kind |-> "joblib", n_features_in |-> n, classes |-> cs]

\* X.shape[1] of prepare_training_data: the six features
NumFeatures == 6

\* the labels prepare_training_data gives: 0 and 1
TrainingClasses == {0, 1}

\* what the labels stand for in training: 0 low risk, 1 high risk
TrainingLabelName(c) == IF c = 1 THEN "High Risk" ELSE "Low Risk"

\* the artifacts train_model writes: a forest fitted on X_train, y_train
TrainedArtifacts ==
    {JoblibModel(NumFeatures, cs) : cs \in (SUBSET TrainingClasses) \ {{}}}

\* other classifiers found at the path (the tests load a stand-in whose
\* predict answers whatever the row): two-class, three-class, and one that
\* also answers a value outside 0..2
OtherArtifacts ==
    {Model(2, {0, 1}), Model(2, {0, 1, 2}), Model(2, {0, 1, 2, 3})}

ModelFiles == {NoFile, CorruptFile} \cup TrainedArtifacts \cup OtherArtifacts

---------------------------------------------------------------------------
(* predictor.py: predict_student_risk *)

\* with open(model_path, 'rb') as f: model = pickle.load(f)
\* the exceptions it can end with ("" is success); pickle.load may or may
\* not read a file that joblib.dump wrote
LoadOutcomes(file) ==
    CASE file.kind = "absent"  -> {"FileNotFoundError"}
      [] file.kind = "corrupt" -> {"UnpicklingError"}
      [] file.kind = "joblib"  -> {"", "UnpicklingError"}
      [] OTHER                 -> {""}

\* features = [student_data.grade_average, student_data.attendance_rate]
\* with the four remaining features added
FeaturesSix(s) ==
    <<s.grade_average, s.attendance_rate, PyInt(0), PyInt(0), PyInt(0), PyInt(0)>>

\* features = [student_data.grade_average, student_data.attendance_rate]
Features(s) == <<s.grade_average, s.attendance_rate>>

\* model.predict([features])[0]: a class of the model, or an exception;
\* a row of the wrong width always raises
Inference(model, features) ==
    {[raised |-> TRUE, class |-> -1]} \cup
    (IF Len(features) = model.n_features_in
     THEN {[raised |-> FALSE, class |-> c] : c \in model.classes}
     ELSE {})

\* risk_levels = {0: 'Low Risk', 1: 'Medium Risk', 2: 'High Risk'}
\* risk_levels.get(prediction, 'Unknown Risk')
RiskLevels(prediction) ==
    CASE prediction = 0 -> "Low Risk"
      [] prediction = 1 -> "Medium Risk"
      [] prediction = 2 -> "High Risk"
      [] OTHER          -> "Unknown Risk"

\* except Exception: return calculate_risk_level(student_data)
Fallback(s) == calculate_risk_level(s)

\* the outcomes of predictor.predict_student_risk(student_data):
\*   path        "classifier" or "fallback"
\*   failure     the exception the try block ended with ("" when none)
\*   prediction  the class the model answered (-1 when none)
\*   result      what the call returns or raises
predictor__predict_student_risk(s, file) ==
    {[path |-> "fallback", failure |-> e, prediction |-> -1,
      result |-> Fallback(s)] : e \in LoadOutcomes(file) \ {""}}
    \cup
    (IF "" \in LoadOutcomes(file)
     THEN {IF p.raised
           THEN [path |-> "fallback", failure |-> "InferenceError",
                 prediction |-> -1, result |-> Fallback(s)]
           ELSE [path |-> "classifier", failure |-> "",
                 prediction |-> p.class,
                 result |-> StrResult(RiskLevels(p.class))]
             : p \in Inference(file, Features(s))}
     ELSE {})

---------------------------------------------------------------------------
(* Nothing running, nothing answered, nothing written *)

\* no update_all_student_risks is running
Idle == [pc |-> "idle", i |-> 0, pending |-> <<>>]

\* api_update_risks has not answered
NoResponse == [kind |-> "none", failed |-> 0]

\* no thread serves an api_update_risks request
Workers == 1 .. NumWorkers
NoRuns  == [w \in Workers |-> [pc |-> "idle", i |-> 0, pending |-> <<>>,
                               resp |-> NoResponse]]

\* no helper function is called
NoArgs == [kind |-> "none"]

\* the notifications table is not looked at
NoNotify == [status |-> "", sent_at |-> PyNone, type |-> "", email |-> FALSE,
             phone |-> FALSE, now |-> 0]

\* no train_model is running; shape is X.shape, y the labels
NotTraining == [pc |-> "idle", shape |-> <<0, 0>>, y |-> <<>>, outcome |-> ""]

\* data/feature_info.pkl does not exist
NoInfo == [kind |-> "absent", n_features |-> 0, model |-> NoFile]

\* data/feature_info.pkl was left half written
CorruptInfo == [kind |-> "corrupt", n_features |-> 0, model |-> NoFile]

\* feature_info = {'feature_names': ..., 'accuracy': accuracy}: the names of
\* the columns of X and the accuracy of the model fitted in the same run
InfoOf(model) ==
    [kind |-> "info", n_features |-> model.n_features_in, model |-> model]

---------------------------------------------------------------------------
(* Calls *)

NoCall == [fn |-> "", path |-> "", failure |-> "", prediction |-> -1,
           result |-> [kind |-> "none", type |-> "", value |-> ""]]

\* the dicts predict.predict_student_risk is called with, and a non-dict
Dict(g, a) == [kind |-> "dict", grade |-> g, attendance |-> a]
NotADict   == [kind |-> "None", grade |-> Missing, attendance |-> Missing]

StudentDataInputs ==
    {Dict(g, a) : g \in Numbers \cup DirtyValues, a \in Numbers \cup DirtyValues}
    \cup {NotADict}

\* a Student row: the columns the predictor reads
Student(g, a) == [grade_average |-> g, attendance_rate |-> a]

ColumnValues == Numbers \cup {PyNone}

Students == {Student(g, a) : g \in ColumnValues, a \in ColumnValues}

\* one student of each kind the rules of predictor.py tell apart
SampleColumn == {PyNone, PyInt(45), PyInt(55), PyInt(65), PyInt(72), PyInt(80)}
SampleStudents == {Student(g, a) : g \in SampleColumn, a \in SampleColumn}

DefaultDict    == Dict(Missing, Missing)
DefaultStudent == Student(PyInt(0), PyInt(0))

\* a call of predict.predict_student_risk(student_data)
CallPredict ==
    /\ ret' = [NoCall EXCEPT !.fn = "predict.predict_student_risk",
                             !.result = predict__predict_student_risk(student_data)]
    /\ UNCHANGED <<student_data, student, args, modelFile, featureInfoFile>>
    /\ UNCHANGED <<dbVars, train>>

\* a call of utils.safe_float(student_data.get('grade'))
CallSafeFloat ==
    /\ student_data.kind = "dict"
    /\ ret' = [NoCall EXCEPT
                 !.fn = "utils.safe_float",
                 !.result = safe_float(DictGet(student_data, "grade", PyNone))]
    /\ UNCHANGED <<student_data, student, args, modelFile, featureInfoFile>>
    /\ UNCHANGED <<dbVars, train>>

\* a call of predictor.calculate_risk_level(student)
CallCalculateRiskLevel ==
    /\ ret' = [NoCall EXCEPT !.fn = "predictor.calculate_risk_level",
                             !.result = calculate_risk_level(student)]
    /\ UNCHANGED <<student_data, student, args, modelFile, featureInfoFile>>
    /\ UNCHANGED <<dbVars, train>>

\* a predict_student_risk that also stores the label it returns in the
\* risk_level of the student row
CallPredictStudentRiskPersisting ==
    /\ \E o \in predictor__predict_student_risk(student, modelFile) :
          /\ ret' = [fn |-> "predictor.predict_student_risk", path |-> o.path,
                     failure |-> o.failure, prediction |-> o.prediction,
                     result |-> o.result]
          /\ dbRisk' = IF o.result.kind = "return"
                       THEN [i \in 1 .. Len(dbRisk) |-> o.result.value]
                       ELSE dbRisk
    /\ UNCHANGED <<student_data, student, args, modelFile, featureInfoFile>>
    /\ UNCHANGED <<roster, upd, resp, train, runs, notify>>

\* a call of predictor.predict_student_risk(student)
CallPredictStudentRisk ==
    /\ \E o \in predictor__predict_student_risk(student, modelFile) :
          ret' = [fn |-> "predictor.predict_student_risk", path |-> o.path,
                  failure |-> o.failure, prediction |-> o.prediction,
                  result |-> o.result]
    /\ UNCHANGED <<student_data, student, args, modelFile, featureInfoFile>>
    /\ UNCHANGED <<dbVars, train>>

\* The rule-based functions, over every input
InitRule ==
    /\ \/ student_data \in StudentDataInputs /\ student = DefaultStudent
       \/ student_data = DefaultDict /\ student \in Students
    /\ modelFile = NoFile
    /\ ret = NoCall
    /\ roster = <<>> /\ dbRisk = <<>> /\ upd = Idle /\ resp = NoResponse
    /\ train = NotTraining /\ featureInfoFile = NoInfo
    /\ runs = NoRuns
    /\ args = NoArgs /\ notify = NoNotify

NextRule == CallPredict \/ CallCalculateRiskLevel \/ CallSafeFloat

SpecRule == InitRule /\ [][NextRule]_vars

\* predictor.predict_student_risk, over every student and model file; the
\* student is a row of the table, with no risk level stored yet
InitPredict ==
    /\ student_data = DefaultDict
    /\ student \in SampleStudents
    /\ modelFile \in ModelFiles
    /\ ret = NoCall
    /\ roster = <<student>> /\ dbRisk = <<"None">>
    /\ upd = Idle /\ resp = NoResponse
    /\ train = NotTraining /\ featureInfoFile = NoInfo
    /\ runs = NoRuns
    /\ args = NoArgs /\ notify = NoNotify

NextPredict == CallPredictStudentRisk \/ CallCalculateRiskLevel

SpecPredict == InitPredict /\ [][NextPredict]_vars

---------------------------------------------------------------------------
(* The students table *)

\* the rows the table can hold: a grade_average on each side of the
\* thresholds of calculate_risk_level, and a NULL in either column
RosterStudents ==
    {Student(PyNone, PyInt(80)), Student(PyInt(80), PyNone),
     Student(PyInt(45), PyInt(80)), Student(PyInt(65), PyInt(80)),
     Student(PyInt(80), PyInt(80))}

Rosters == UNION {[1 .. n -> RosterStudents] : n \in 0 .. NumStudents}

Ids == 1 .. Len(roster)

---------------------------------------------------------------------------
(* predictor.py: update_all_student_risks, called by app.api_update_risks *)

\* POST /api/update_risks arrives: students = Student.query.all()
api_update_risks_begin ==
    /\ upd.pc = "idle"
    /\ upd' = [pc |-> "loop", i |-> 1, pending |-> <<>>]
    /\ resp' = NoResponse
    /\ UNCHANGED <<roster, dbRisk, modelFile, featureInfoFile, train, callVars, notify,
                   runs>>

\* a loop that commits the risk level of each student as it is assigned
update_all_student_risks_step_committing ==
    /\ upd.pc = "loop"
    /\ upd.i <= Len(roster)
    /\ \E o \in predictor__predict_student_risk(roster[upd.i], modelFile) :
          IF o.result.kind = "return"
          THEN /\ upd' = [upd EXCEPT !.i = upd.i + 1,
                                     !.pending = Append(upd.pending, o.result.value)]
               /\ dbRisk' = [dbRisk EXCEPT ![upd.i] = o.result.value]
               /\ resp' = resp
          ELSE /\ upd' = Idle
               /\ dbRisk' = dbRisk
               /\ resp' = [kind |-> "error", failed |-> upd.i]
    /\ UNCHANGED <<roster, modelFile, featureInfoFile, train, callVars, notify,
                   runs>>

\* one turn of  for student in students:
\*     risk_level = predict_student_risk(student)
\*     student.risk_level = risk_level
\* an exception of predict_student_risk leaves the loop and the function;
\* api_update_risks answers success False and the session, with the risk
\* levels assigned so far, is discarded without a commit
update_all_student_risks_step ==
    /\ upd.pc = "loop"
    /\ upd.i <= Len(roster)
    /\ \E o \in predictor__predict_student_risk(roster[upd.i], modelFile) :
          IF o.result.kind = "return"
          THEN /\ upd' = [upd EXCEPT !.i = upd.i + 1,
                                     !.pending = Append(upd.pending, o.result.value)]
               /\ resp' = resp
          ELSE /\ upd' = Idle
               /\ resp' = [kind |-> "error", failed |-> upd.i]
    /\ UNCHANGED <<roster, dbRisk, modelFile, featureInfoFile, train, callVars, notify,
                   runs>>

\* the loop is over: db.session.commit(), and api_update_risks answers
\* success True
update_all_student_risks_commit ==
    /\ upd.pc = "loop"
    /\ upd.i > Len(roster)
    /\ dbRisk' = upd.pending
    /\ upd' = Idle
    /\ resp' = [kind |-> "ok", failed |-> 0]
    /\ UNCHANGED <<roster, modelFile, featureInfoFile, train, callVars, notify, runs>>

---------------------------------------------------------------------------
(* train.py: train_model *)

\* get_grade_average() / get_attendance_rate(): 0 where there is no value
ValueOrZero(x) == IF x.t = "None" THEN 0 ELSE x.v

\* the label with the thresholds of predict.py: 1 iff grade average < 60 or
\* attendance rate < 70
TrainingLabelRules(s) ==
    IF ValueOrZero(s.grade_average) < HighGrade
         \/ ValueOrZero(s.attendance_rate) < HighAttendance
    THEN 1 ELSE 0

\* the label prepare_training_data gives a student: 1 (high risk) iff
\* grade average < 60 or attendance rate < 75
TrainingLabel(s) ==
    IF ValueOrZero(s.grade_average) < 60 \/ ValueOrZero(s.attendance_rate) < 75
    THEN 1 ELSE 0

CountOf(y, c) == Cardinality({i \in 1 .. Len(y) : y[i] = c})
ClassesOf(y)  == {y[i] : i \in 1 .. Len(y)}

\* train_test_split(X, y, test_size=0.2, random_state=42, stratify=y)
\* raises ValueError when the train part is empty, when a class has fewer
\* than two members, or when a part is smaller than the number of classes
SplitRaises(y) ==
    LET n       == Len(y)
        n_test  == (n + 4) \div 5
        n_train == n - n_test
        n_cls   == Cardinality(ClassesOf(y))
    IN  \/ n_train = 0
        \/ \E c \in ClassesOf(y) : CountOf(y, c) < 2
        \/ n_train < n_cls
        \/ n_test < n_cls

\* prepare_training_data(session): one row of NumFeatures features and one
\* label for each student of the table
prepare_training_data(students) ==
    [shape |-> <<Len(students), NumFeatures>>,
     y     |-> [i \in 1 .. Len(students) |-> TrainingLabel(students[i])]]

\* train_model without  if X.shape[0] == 0: ... return
train_model_prepare_unchecked ==
    /\ train.pc = "idle"
    /\ LET data == prepare_training_data(roster)
       IN  train' = [pc |-> "prepared", shape |-> data.shape, y |-> data.y,
                     outcome |-> ""]
    /\ UNCHANGED <<modelFile, featureInfoFile, dbVars, callVars>>

\* X, y, feature_names = prepare_training_data(session)
\* if X.shape[0] == 0: print("No training data available."); return
train_model_prepare ==
    /\ train.pc = "idle"
    /\ LET data == prepare_training_data(roster)
       IN  train' = IF data.shape[1] = 0
                    THEN [NotTraining EXCEPT !.outcome = "no_data"]
                    ELSE [pc |-> "prepared", shape |-> data.shape,
                          y |-> data.y, outcome |-> ""]
    /\ UNCHANGED <<modelFile, featureInfoFile, dbVars, callVars>>

\* train_test_split, model.fit, model.predict, accuracy_score; an
\* exception is printed and raised again
train_model_fit ==
    /\ train.pc = "prepared"
    /\ train' = IF SplitRaises(train.y)
                THEN [NotTraining EXCEPT !.outcome = "raised"]
                ELSE [train EXCEPT !.pc = "fitted"]
    /\ UNCHANGED <<modelFile, featureInfoFile, dbVars, callVars>>

\* the forest model.fit(X_train, y_train) gives, as joblib.dump writes it
FittedModel(t) == JoblibModel(t.shape[2], ClassesOf(t.y))

\* joblib.dump(model, model_path)
train_model_dump_model ==
    /\ train.pc = "fitted"
    /\ modelFile' = FittedModel(train)
    /\ train' = [train EXCEPT !.pc = "model_saved"]
    /\ UNCHANGED <<featureInfoFile, dbVars, callVars>>

\* joblib.dump(feature_info, .../feature_info.pkl)
train_model_dump_info ==
    /\ train.pc = "model_saved"
    /\ featureInfoFile' = InfoOf(FittedModel(train))
    /\ train' = [NotTraining EXCEPT !.outcome = "completed"]
    /\ UNCHANGED <<modelFile, dbVars, callVars>>

\* the process is stopped from outside while train_model runs; stopped
\* inside a joblib.dump, the file being written can be left half written
train_model_interrupt ==
    /\ train.pc \in {"prepared", "fitted", "model_saved"}
    /\ train' = [NotTraining EXCEPT !.outcome = "interrupted"]
    /\ \/ UNCHANGED <<modelFile, featureInfoFile>>
       \/ /\ train.pc = "fitted"
          /\ modelFile' = CorruptFile
          /\ UNCHANGED featureInfoFile
       \/ /\ train.pc = "model_saved"
          /\ featureInfoFile' = CorruptInfo
          /\ UNCHANGED modelFile
    /\ UNCHANGED <<dbVars, callVars>>

---------------------------------------------------------------------------
(* The application: risk updates and training runs over one table *)

\* the model file the application starts with: none, a three-class
\* classifier, or the artifact of an earlier training run
StartModelFiles ==
    {NoFile, Model(2, {0, 1, 2}), JoblibModel(NumFeatures, TrainingClasses)}

\* the manifest next to it: the one the training run wrote with it, or none
StartInfo(file) == IF file.kind = "joblib" THEN InfoOf(file) ELSE NoInfo

Init ==
    /\ roster \in Rosters
    /\ dbRisk = [i \in 1 .. Len(roster) |-> "None"]
    /\ modelFile \in StartModelFiles
    /\ featureInfoFile = StartInfo(modelFile)
    /\ upd = Idle
    /\ resp = NoResponse
    /\ train = NotTraining
    /\ student_data = DefaultDict
    /\ student = DefaultStudent
    /\ ret = NoCall
    /\ runs = NoRuns
    /\ args = NoArgs /\ notify = NoNotify

Next ==
    \/ api_update_risks_begin
    \/ update_all_student_risks_step
    \/ update_all_student_risks_commit
    \/ train_model_prepare
    \/ train_model_fit
    \/ train_model_dump_model
    \/ train_model_dump_info

Spec == Init /\ [][Next]_vars

---------------------------------------------------------------------------
(* Overlapping requests: run_web.py starts the server with threaded=True,  *)
(* every request is served by a thread of its own with a session of its    *)
(* own, and the threads share the students table and the model file        *)

\* thread w takes a POST /api/update_risks: students = Student.query.all()
run_begin(w) ==
    /\ runs[w].pc = "idle"
    /\ runs' = [runs EXCEPT ![w] = [pc |-> "loop", i |-> 1, pending |-> <<>>,
                                    resp |-> NoResponse]]
    /\ UNCHANGED <<roster, dbRisk, upd, resp, modelFile, featureInfoFile, train,
                   callVars, notify>>

\* one turn of the loop of update_all_student_risks in thread w; the
\* assignment goes to the session of the thread
run_step(w) ==
    /\ runs[w].pc = "loop"
    /\ runs[w].i <= Len(roster)
    /\ \E o \in predictor__predict_student_risk(roster[runs[w].i], modelFile) :
          runs' = [runs EXCEPT ![w] =
                     IF o.result.kind = "return"
                     THEN [@ EXCEPT !.i = @ + 1,
                                    !.pending = Append(@, o.result.value)]
                     ELSE [pc |-> "done", i |-> runs[w].i, pending |-> <<>>,
                           resp |-> [kind |-> "error", failed |-> runs[w].i]]]
    /\ UNCHANGED <<roster, dbRisk, upd, resp, modelFile, featureInfoFile, train,
                   callVars, notify>>

\* db.session.commit() of thread w: the risk levels of its session reach
\* the table
run_commit(w) ==
    /\ runs[w].pc = "loop"
    /\ runs[w].i > Len(roster)
    /\ dbRisk' = runs[w].pending
    /\ runs' = [runs EXCEPT ![w] = [pc |-> "done", i |-> runs[w].i,
                                    pending |-> <<>>,
                                    resp |-> [kind |-> "ok", failed |-> 0]]]
    /\ UNCHANGED <<roster, upd, resp, modelFile, featureInfoFile, train,
                   callVars, notify>>

InitWorkers ==
    /\ roster \in Rosters
    /\ dbRisk = [i \in 1 .. Len(roster) |-> "None"]
    /\ modelFile \in StartModelFiles
    /\ featureInfoFile = StartInfo(modelFile)
    /\ upd = Idle
    /\ resp = NoResponse
    /\ train = NotTraining
    /\ student_data = DefaultDict
    /\ student = DefaultStudent
    /\ ret = NoCall
    /\ runs = NoRuns
    /\ args = NoArgs /\ notify = NoNotify

NextWorkers ==
    \E w \in Workers : run_begin(w) \/ run_step(w) \/ run_commit(w)

SpecWorkers == InitWorkers /\ [][NextWorkers]_vars

---------------------------------------------------------------------------
(* Training runs alone, over tables with a student on each side of the     *)
(* labelling thresholds, and stopped from outside at any step              *)

TrainColumnGrade      == {PyNone, PyInt(45), PyInt(59), PyInt(60), PyInt(80)}
TrainColumnAttendance == {PyNone, PyInt(60), PyInt(74), PyInt(75), PyInt(85)}

TrainStudents ==
    {Student(g, a) : g \in TrainColumnGrade, a \in TrainColumnAttendance}

TrainRosters == UNION {[1 .. n -> TrainStudents] : n \in 0 .. NumStudents}

InitTrain ==
    /\ roster \in TrainRosters
    /\ dbRisk = [i \in 1 .. Len(roster) |-> "None"]
    /\ modelFile \in StartModelFiles
    /\ featureInfoFile = StartInfo(modelFile)
    /\ upd = Idle
    /\ resp = NoResponse
    /\ train = NotTraining
    /\ student_data = DefaultDict
    /\ student = DefaultStudent
    /\ ret = NoCall
    /\ runs = NoRuns
    /\ args = NoArgs /\ notify = NoNotify

NextTrain ==
    \/ train_model_prepare
    \/ train_model_fit
    \/ train_model_dump_model
    \/ train_model_dump_info
    \/ train_model_interrupt

SpecTrain == InitTrain /\ [][NextTrain]_vars

---------------------------------------------------------------------------
(* Feature extraction: utils.calculate_academic_metrics and                *)
(* prepare_prediction_data                                                 *)

\* a float that is the quotient of two integers; 0 / 0 is nan
Frac(n, d) == [num |-> n, den |-> d]
Zero       == Frac(0, 1)
IsZero(f)  == f.num = 0 /\ f.den # 0
Minus(a, b) == Frac(a.num * b.den - b.num * a.den, a.den * b.den)

RECURSIVE Sum(_)
Sum(xs) == IF xs = <<>> THEN 0 ELSE Head(xs) + Sum(Tail(xs))

Squares(xs) == [i \in 1 .. Len(xs) |-> xs[i] * xs[i]]
Present(attendance) ==
    Cardinality({i \in 1 .. Len(attendance) : attendance[i]})
Min(xs) == CHOOSE x \in {xs[i] : i \in 1 .. Len(xs)} :
               \A i \in 1 .. Len(xs) : x <= xs[i]
Max(xs) == CHOOSE x \in {xs[i] : i \in 1 .. Len(xs)} :
               \A i \in 1 .. Len(xs) : x >= xs[i]

\* np.mean(array) of a non-empty array
NpMean(xs) == Frac(Sum(xs), Len(xs))

\* np.std(array) ** 2: the mean of the squares minus the square of the mean
NpVariance(xs) ==
    Frac(Len(xs) * Sum(Squares(xs)) - Sum(xs) * Sum(xs), Len(xs) * Len(xs))

\* the dict returned when there are no grades; keys are the keys of the
\* dict, grade_std_squared is the square of grade_std
EmptyMetrics ==
    [keys |-> {"grade_average", "grade_std", "attendance_rate",
               "total_assignments", "completion_rate"},
     grade_average |-> Zero, grade_std_squared |-> Zero,
     grade_min |-> Zero, grade_max |-> Zero,
     attendance_rate |-> Zero, total_assignments |-> Zero,
     completion_rate |-> Zero]

\* metrics = {...}: the dict built from the two arrays
GradedMetrics(grades, attendance) ==
    [keys |-> {"grade_average", "grade_std", "grade_min", "grade_max",
               "attendance_rate", "total_assignments", "completion_rate"},
     grade_average |-> NpMean(grades),
     grade_std_squared |-> NpVariance(grades),
     grade_min |-> Frac(Min(grades), 1),
     grade_max |-> Frac(Max(grades), 1),
     attendance_rate |-> IF Len(attendance) > 0
                         THEN Frac(100 * Present(attendance), Len(attendance))
                         ELSE Zero,
     total_assignments |-> Frac(Len(grades), 1),
     completion_rate |-> Frac(100, 1)]

\* calculate_academic_metrics reporting a completion_rate of 100.0 with no
\* grades as well
calculate_academic_metrics_complete(grades, attendance) ==
    IF Len(grades) = 0
    THEN [EmptyMetrics EXCEPT !.completion_rate = Frac(100, 1)]
    ELSE GradedMetrics(grades, attendance)

\* utils.calculate_academic_metrics(grades, attendance)
calculate_academic_metrics(grades, attendance) ==
    IF Len(grades) = 0
    THEN EmptyMetrics
    ELSE GradedMetrics(grades, attendance)

\* the number of most recent grades recent_grade_average is taken over
RecentK == 2

\* the last k elements of xs (all of them when there are fewer)
LastK(xs, k) ==
    IF Len(xs) <= k THEN xs ELSE SubSeq(xs, Len(xs) - k + 1, Len(xs))
AllButLastK(xs, k) ==
    IF Len(xs) <= k THEN <<>> ELSE SubSeq(xs, 1, Len(xs) - k)

MeanOrZero(xs) == IF Len(xs) = 0 THEN Zero ELSE NpMean(xs)

\* the number of assignments the catalog expects of the student: the sum
\* over the courses enrolled in; the number completed when the catalog is
\* not available
ExpectedTotal(s) ==
    IF s.catalog THEN Sum(s.enrollments) ELSE Len(s.grades)

\* missing_assignments without the lower limit 0
MissingAssignmentsSigned(expected, completed) == expected - completed

\* missing_assignments: max(0, expected_total - completed_count)
MissingAssignments(expected, completed) ==
    IF expected - completed > 0 THEN expected - completed ELSE 0

\* the feature dict of prepare_prediction_data(student, session)
FeatureDict(s) ==
    [grade_average        |-> MeanOrZero(s.grades),
     attendance_rate      |->
         IF Len(s.attendance) = 0 THEN Zero
         ELSE Frac(100 * Present(s.attendance), Len(s.attendance)),
     recent_grade_average |-> MeanOrZero(LastK(s.grades, RecentK)),
     grade_trend          |->
         IF Len(AllButLastK(s.grades, RecentK)) = 0 THEN Zero
         ELSE Minus(NpMean(LastK(s.grades, RecentK)),
                    NpMean(AllButLastK(s.grades, RecentK))),
     missing_assignments  |->
         Frac(MissingAssignments(ExpectedTotal(s), Len(s.grades)), 1),
     course_count         |-> Frac(Len(s.enrollments), 1)]

\* X, features = prepare_prediction_data(student, session): the vector
\* holds the values of the dict in the order of the feature names
prepare_prediction_data(s) ==
    LET f == FeatureDict(s)
    IN  [X |-> <<f.grade_average, f.attendance_rate, f.recent_grade_average,
                 f.grade_trend, f.missing_assignments, f.course_count>>,
         features |-> f]

\* the histories of a student: grade scores in date order, attendance
\* records (TRUE for present), the number of assignments the catalog
\* lists for each course enrolled in, and whether the catalog can be read
GradeScores       == {50, 90}
CourseAssignments == {0, 2, 10}

SeqsUpTo(S, n) == UNION {[1 .. k -> S] : k \in 0 .. n}

Histories ==
    [grades      : SeqsUpTo(GradeScores, MaxLen),
     attendance  : SeqsUpTo(BOOLEAN, MaxLen),
     enrollments : SeqsUpTo(CourseAssignments, MaxCourses),
     catalog     : BOOLEAN]

DictResult(d) == [kind |-> "return", type |-> "dict", value |-> d]

\* a call of utils.calculate_academic_metrics(grades, attendance)
CallCalculateAcademicMetrics ==
    /\ ret' = [NoCall EXCEPT
                 !.fn = "utils.calculate_academic_metrics",
                 !.result = DictResult(calculate_academic_metrics(
                                student.grades, student.attendance))]
    /\ UNCHANGED <<student_data, student, args, modelFile, featureInfoFile>>
    /\ UNCHANGED <<dbVars, train>>

\* a call of prepare_prediction_data(student, session)
CallPreparePredictionData ==
    /\ ret' = [NoCall EXCEPT
                 !.fn = "predictor.prepare_prediction_data",
                 !.result = DictResult(prepare_prediction_data(student))]
    /\ UNCHANGED <<student_data, student, args, modelFile, featureInfoFile>>
    /\ UNCHANGED <<dbVars, train>>

InitFeatures ==
    /\ student \in Histories
    /\ student_data = DefaultDict
    /\ modelFile = NoFile
    /\ ret = NoCall
    /\ roster = <<>> /\ dbRisk = <<>> /\ upd = Idle /\ resp = NoResponse
    /\ train = NotTraining /\ featureInfoFile = NoInfo
    /\ runs = NoRuns
    /\ args = NoArgs /\ notify = NoNotify

NextFeatures == CallCalculateAcademicMetrics \/ CallPreparePredictionData

SpecFeatures == InitFeatures /\ [][NextFeatures]_vars

---------------------------------------------------------------------------
(* Helper functions: models.User.has_role, utils.calculate_semester_progress, *)
(* utils.generate_student_report, and the rule sets side by side            *)

\* role_hierarchy.get(role_name, [])
RoleHierarchy(role_name) ==
    CASE role_name = "admin"   -> {"admin", "teacher", "viewer"}
      [] role_name = "teacher" -> {"teacher", "viewer"}
      [] role_name = "viewer"  -> {"viewer"}
      [] OTHER                 -> {}

\* User.has_role(role_name): self.role in role_hierarchy.get(role_name, [])
has_role(role, role_name) == role \in RoleHierarchy(role_name)

\* the roles of the users table and a name that is no role
Roles     == {"admin", "teacher", "viewer"}
RoleNames == Roles \cup {"student"}

\* timedelta(days=120)
DefaultSemesterDays == 120

\* utils.calculate_semester_progress(start_date, end_date), with
\* date.today() = today; dates are day numbers, end_date a PyInt or PyNone
calculate_semester_progress(start_date, end_date, today) ==
    LET end == IF end_date.t = "None" THEN start_date + DefaultSemesterDays
               ELSE end_date.v
    IN  IF today < start_date THEN [kind |-> "return", type |-> "float",
                                    value |-> Frac(0, 1)]
        ELSE IF today > end THEN [kind |-> "return", type |-> "float",
                                  value |-> Frac(100, 1)]
        ELSE IF end - start_date = 0 THEN Raised("ZeroDivisionError")
        ELSE [kind |-> "return", type |-> "float",
              value |-> Frac((today - start_date) * 100, end - start_date)]

Days == 0 .. MaxDay

\* if metrics.get(key, 0) < n: recommendations.append({... metrics[key] ...})
\* "add" or "skip", or the exception: None < n raises TypeError, and for a
\* key that is not there 0 < n holds and metrics[key] raises KeyError
Recommend(x, n) ==
    IF x.t = "missing" THEN (IF 0 < n THEN "KeyError" ELSE "skip")
    ELSE IF x.t = "None" THEN "TypeError"
    ELSE IF x.v < n THEN "add" ELSE "skip"

\* utils.generate_student_report(student_data): the actions of the
\* recommendations of the report, or the exception
generate_student_report(sd) ==
    LET grade      == IF sd.has_metrics THEN sd.grade_average ELSE Missing
        attendance == IF sd.has_metrics THEN sd.attendance_rate ELSE Missing
        c1   == Recommend(grade, 60)
        c2   == Recommend(attendance, 75)
        recs == (IF c1 = "add" THEN <<"Schedule academic intervention">>
                 ELSE <<>>)
                \o (IF c2 = "add" THEN <<"Address attendance issues">>
                    ELSE <<>>)
                \o (IF sd.level = "High Risk"
                    THEN <<"Immediate advisor consultation">> ELSE <<>>)
    IN  IF c1 \in {"KeyError", "TypeError"} THEN Raised(c1)
        ELSE IF c2 \in {"KeyError", "TypeError"} THEN Raised(c2)
        ELSE [kind |-> "return", type |-> "report",
              value |-> IF recs = <<>> THEN <<"Continue current support">>
                        ELSE recs]

ReportValues ==
    {Missing, PyNone, PyInt(59), PyInt(60), PyInt(74), PyInt(75)}

\* risk_level = "High Risk" if grade_percentage < 50 or
\* attendance_percentage < 60 else "Medium Risk" if grade_percentage < 70
\* or attendance_percentage < 75 else "Low Risk"  (init_db.py)
create_student_academic_data(grade_percentage, attendance_percentage) ==
    IF grade_percentage < 50 \/ attendance_percentage < 60 THEN "High Risk"
    ELSE IF grade_percentage < 70 \/ attendance_percentage < 75
         THEN "Medium Risk"
    ELSE "Low Risk"

\* the scores two calls are compared on: those next to a threshold, and
\* the highest score
PairScores == EdgeScores \cup {MaxScore}

\* a lower and a higher score
OrderedScores == {p \in PairScores \X PairScores : p[1] <= p[2]}

\* the arguments the helpers are called with
HelperArgs ==
    {[kind |-> "role", role |-> u, role_name |-> r] :
        u \in RoleNames, r \in RoleNames}
    \cup
    {[kind |-> "semester", start_date |-> s, end_date |-> e, today |-> t] :
        s \in Days, e \in {PyInt(d) : d \in Days} \cup {PyNone}, t \in Days}
    \cup
    {[kind |-> "report", has_metrics |-> m, grade_average |-> g,
      attendance_rate |-> a, level |-> l] :
        m \in BOOLEAN, g \in ReportValues, a \in ReportValues,
        l \in {"High Risk", "Low Risk", "Unknown"}}
    \cup
    {[kind |-> "pair", g1 |-> g[1], a1 |-> a[1], g2 |-> g[2], a2 |-> a[2]] :
        g \in OrderedScores, a \in OrderedScores}
    \cup
    {[kind |-> "scores", grade |-> g, attendance |-> a] :
        g \in Scores, a \in Scores}

HelperCall(fn, result) ==
    /\ ret' = [NoCall EXCEPT !.fn = fn, !.result = result]
    /\ UNCHANGED <<student_data, student, args, modelFile, featureInfoFile>>
    /\ UNCHANGED <<dbVars, train>>

\* a call of user.has_role(role_name)
CallHasRole ==
    /\ args.kind = "role"
    /\ HelperCall("models.User.has_role",
                  [kind |-> "return", type |-> "bool",
                   value |-> has_role(args.role, args.role_name)])

\* a call of calculate_semester_progress(start_date, end_date)
CallCalculateSemesterProgress ==
    /\ args.kind = "semester"
    /\ HelperCall("utils.calculate_semester_progress",
                  calculate_semester_progress(args.start_date, args.end_date,
                                              args.today))

\* a call of generate_student_report(student_data)
CallGenerateStudentReport ==
    /\ args.kind = "report"
    /\ HelperCall("utils.generate_student_report",
                  generate_student_report(args))

\* predict.predict_student_risk called on two dicts of numbers
CallPredictPair ==
    /\ args.kind = "pair"
    /\ HelperCall("predict.predict_student_risk",
          [kind |-> "return", type |-> "labels",
           value |-> <<predict__predict_student_risk(
                           Dict(PyInt(args.g1), PyInt(args.a1))).value,
                       predict__predict_student_risk(
                           Dict(PyInt(args.g2), PyInt(args.a2))).value>>])

\* predictor.calculate_risk_level called on two students
CallCalculateRiskLevelPair ==
    /\ args.kind = "pair"
    /\ HelperCall("predictor.calculate_risk_level",
          [kind |-> "return", type |-> "labels",
           value |-> <<calculate_risk_level(
                           Student(PyInt(args.g1), PyInt(args.a1))).value,
                       calculate_risk_level(
                           Student(PyInt(args.g2), PyInt(args.a2))).value>>])

\* the three rule sets applied to one pair of scores:
\* predict.predict_student_risk, predictor.calculate_risk_level and the
\* risk level init_db.create_student_academic_data seeds
CallRuleSets ==
    /\ args.kind = "scores"
    /\ HelperCall("rule sets",
          [kind |-> "return", type |-> "labels",
           value |-> <<predict__predict_student_risk(
                           Dict(PyInt(args.grade), PyInt(args.attendance))).value,
                       calculate_risk_level(
                           Student(PyInt(args.grade), PyInt(args.attendance))).value,
                       create_student_academic_data(args.grade,
                                                    args.attendance)>>])

InitHelpers ==
    /\ args \in HelperArgs
    /\ student = DefaultStudent
    /\ student_data = DefaultDict
    /\ modelFile = NoFile
    /\ ret = NoCall
    /\ roster = <<>> /\ dbRisk = <<>> /\ upd = Idle /\ resp = NoResponse
    /\ train = NotTraining /\ featureInfoFile = NoInfo
    /\ runs = NoRuns /\ notify = NoNotify

NextHelpers ==
    \/ CallHasRole
    \/ CallCalculateSemesterProgress
    \/ CallGenerateStudentReport
    \/ CallPredictPair
    \/ CallCalculateRiskLevelPair
    \/ CallRuleSets

SpecHelpers == InitHelpers /\ [][NextHelpers]_vars

---------------------------------------------------------------------------
(* Notifications: app.api_send_notification and database.send_notification *)
(* on one row of the notifications table.  notify holds the status, sent_at *)
(* and type of the row, whether its student has an email address and a     *)
(* phone number, and the time datetime.utcnow() gives (now)                *)

\* the contact the notification type needs is there
Deliverable ==
    \/ notify.type = "email" /\ notify.email
    \/ notify.type = "sms" /\ notify.phone

NotifyFrame ==
    UNCHANGED <<student_data, student, modelFile, ret, roster, dbRisk, upd,
                resp, train, featureInfoFile, runs, args>>

\* api_send_notification, the delivery succeeds:
\*     notification.status = 'sent'; notification.sent_at = utcnow(); commit
api_send_notification_sent ==
    /\ notify.now < MaxTime
    /\ Deliverable
    /\ notify' = [notify EXCEPT !.status = "sent",
                                !.sent_at = PyInt(notify.now),
                                !.now = notify.now + 1]
    /\ NotifyFrame

\* api_send_notification, the delivery answers no success or raises:
\*     notification.status = 'failed'; commit
api_send_notification_failed ==
    /\ notify.now < MaxTime
    /\ Deliverable
    /\ notify' = [notify EXCEPT !.status = "failed", !.now = notify.now + 1]
    /\ NotifyFrame

\* api_send_notification, neither branch applies: the answer is Invalid
\* notification type or missing contact info, and nothing is written
api_send_notification_invalid ==
    /\ notify.now < MaxTime
    /\ ~Deliverable
    /\ notify' = [notify EXCEPT !.now = notify.now + 1]
    /\ NotifyFrame

\* database.send_notification(notification_id):
\*     notification.status = 'sent'; notification.sent_at = utcnow(); commit
send_notification ==
    /\ notify.now < MaxTime
    /\ notify' = [notify EXCEPT !.status = "sent",
                                !.sent_at = PyInt(notify.now),
                                !.now = notify.now + 1]
    /\ NotifyFrame

\* create_notification(student_id, notification_type, message): a row
\* that was not sent yet
InitNotify ==
    /\ notify \in [status : {"pending"}, sent_at : {PyNone},
                    type : {"email", "sms", "push"}, email : BOOLEAN,
                    phone : BOOLEAN, now : {1}]
    /\ args = NoArgs
    /\ student = DefaultStudent
    /\ student_data = DefaultDict
    /\ modelFile = NoFile
    /\ ret = NoCall
    /\ roster = <<>> /\ dbRisk = <<>> /\ upd = Idle /\ resp = NoResponse
    /\ train = NotTraining /\ featureInfoFile = NoInfo
    /\ runs = NoRuns

NextNotify ==
    \/ api_send_notification_sent
    \/ api_send_notification_failed
    \/ api_send_notification_invalid
    \/ send_notification

SpecNotify == InitNotify /\ [][NextNotify]_vars

---------------------------------------------------------------------------
(* Claims *)

IsRuleCall == ret.fn = "predict.predict_student_risk"
IsCalcCall == ret.fn = "predictor.calculate_risk_level"
IsPredictorCall == ret.fn = "predictor.predict_student_risk"

BothNumbers ==
    /\ student_data.kind = "dict"
    /\ student_data.grade.t = "int"
    /\ student_data.attendance.t = "int"

\* C1: for every pair of numbers (grade, attendance) the rule-based
\* predict_student_risk of predict.py returns High Risk iff grade < 60 or
\* attendance < 70, otherwise Medium Risk iff grade < 75 or attendance < 80,
\* otherwise Low Risk.
C1_DefaultPolicy ==
    (IsRuleCall /\ BothNumbers) =>
        LET g == student_data.grade.v
            a == student_data.attendance.v
        IN  /\ ret.result.kind = "return"
            /\ (ret.result.value = "High Risk") <=> (g < 60 \/ a < 70)
            /\ (ret.result.value = "Medium Risk") <=>
                   (~(g < 60 \/ a < 70) /\ (g < 75 \/ a < 80))
            /\ (ret.result.value = "Low Risk") <=>
                   (g >= 60 /\ a >= 70 /\ g >= 75 /\ a >= 80)

\* a call with grade 74 and attendance 80 has returned Medium Risk
C1_Witness ==
    /\ IsRuleCall /\ BothNumbers
    /\ student_data.grade.v = 74 /\ student_data.attendance.v = 80
    /\ ret.result.value = "Medium Risk"

\* C2: both rule-based functions (predict.predict_student_risk and
\* predictor.calculate_risk_level) never raise and return one of the three
\* labels, for every input, a missing, None or non-numeric value included.
C2_RuleNeverThrows ==
    (IsRuleCall \/ IsCalcCall) =>
        (ret.result.kind = "return" /\ ret.result.value \in Labels)

\* C3: predictor.predict_student_risk returns a label and lets no exception
\* reach its caller, for every model file and every student, a student whose
\* grade_average or attendance_rate is None included.
C3_PredictNeverRaises ==
    IsPredictorCall => ret.result.kind = "return"

\* C4: whenever loading the model or running it fails,
\* predictor.predict_student_risk returns the label calculate_risk_level
\* gives for the same student, and no failure reaches the caller.
C4_FallbackOnFailure ==
    (IsPredictorCall /\ ret.failure # "") =>
        /\ ret.result.kind = "return"
        /\ ret.result = calculate_risk_level(student)

\* C5: the label predict_student_risk returns is one of the three labels,
\* never Unknown Risk or another value, whatever the loaded model answers.
C5_NoFourthLabel ==
    (IsPredictorCall /\ ret.result.kind = "return") =>
        ret.result.value \in Labels

\* C6: on the classifier path class 0 is reported as Low Risk, 1 as Medium
\* Risk and 2 as High Risk, and a class that training used is reported with
\* the risk name it stood for in training.
C6_MappingMatchesTraining ==
    (IsPredictorCall /\ ret.path = "classifier") =>
        /\ ret.prediction = 0 => ret.result.value = "Low Risk"
        /\ ret.prediction = 1 => ret.result.value = "Medium Risk"
        /\ ret.prediction = 2 => ret.result.value = "High Risk"
        /\ ret.prediction \in TrainingClasses =>
               ret.result.value = TrainingLabelName(ret.prediction)

\* C7: when the loaded two-class model predicts class 1, the positive class
\* of training, predict_student_risk reports High Risk (with the probability
\* of that class).
C7_PositiveClassIsHigh ==
    (IsPredictorCall /\ ret.path = "classifier"
       /\ modelFile.classes = TrainingClasses /\ ret.prediction = 1) =>
        ret.result.value = "High Risk"

\* C8: every result of predict_student_risk, from the classifier and from
\* the fallback, is a dict with a risk_level, a probability in [0,1] and the
\* features used.
C8_ResultIsRecord ==
    (IsPredictorCall /\ ret.result.kind = "return") =>
        ret.result.type = "dict"

C10_BatchIsolation ==
    resp.kind = "error" =>
        \A j \in Ids \ {resp.failed} : dbRisk[j] # "None"

\* C11: train_model on an empty students table ends with the no-training-
\* data outcome without raising, writes neither the model file nor the
\* feature manifest, and leaves the previous artifact as it was.
C11_EmptyRosterNoArtifact ==
    [][(Len(roster) = 0 /\ train' # train) =>
          /\ train'.pc = "idle" /\ train'.outcome = "no_data"
          /\ modelFile' = modelFile
          /\ featureInfoFile' = featureInfoFile]_vars

\* train_model has ended with no training data on an empty table, and the
\* artifact of the earlier run and its manifest are in place
C11_Witness ==
    /\ Len(roster) = 0
    /\ train.outcome = "no_data"
    /\ modelFile = JoblibModel(NumFeatures, TrainingClasses)
    /\ featureInfoFile = InfoOf(modelFile)

\* C12: at every point of a training run, a stop between two steps
\* included, the artifact on disk is whole and of one run: the model file
\* is never half written, and the model file and the feature manifest are
\* those of the same run (the previous one or the new one).
C12_AtomicArtifact ==
    /\ modelFile.kind # "corrupt"
    /\ featureInfoFile.kind # "corrupt"
    /\ modelFile.kind = "joblib" => featureInfoFile = InfoOf(modelFile)
    /\ featureInfoFile.kind = "info" => featureInfoFile.model = modelFile

\* C14: the training data hold one row of exactly 6 features and one label
\* for each student of the table, and the label of a student is 1 iff
\* grade_average < 60 or attendance_rate < 75, and 0 otherwise.
C14_TrainingLabels ==
    train.pc = "prepared" =>
        /\ train.shape = <<Len(roster), 6>>
        /\ Len(train.y) = Len(roster)
        /\ \A i \in Ids :
              /\ train.y[i] \in {0, 1}
              /\ (roster[i].grade_average.t = "int"
                    /\ roster[i].attendance_rate.t = "int") =>
                    ((train.y[i] = 1) <=>
                        (roster[i].grade_average.v < 60
                           \/ roster[i].attendance_rate.v < 75))

\* the data of two students are prepared: grade average 60 with attendance
\* rate 75 is labelled 0, grade average 80 with attendance rate 74 is
\* labelled 1
C14_Witness ==
    /\ train.pc = "prepared"
    /\ roster = <<Student(PyInt(60), PyInt(75)), Student(PyInt(80), PyInt(74))>>
    /\ train.y = <<0, 1>>
    /\ train.shape = <<2, 6>>

\* C13: whenever predict_student_risk has loaded an artifact of train_model
\* and handed it a feature vector, the vector has the length of the rows
\* the model was fitted on (the 6 features of prepare_training_data).
C13_FeatureVectorMatches ==
    (IsPredictorCall /\ modelFile \in TrainedArtifacts
       /\ ret.failure \in {"", "InferenceError"}) =>
        /\ Len(Features(student)) = modelFile.n_features_in
        /\ Len(Features(student)) = 6

\* the call was made with grade 55 and attendance 65
RuleCallScenario ==
    /\ IsRuleCall /\ BothNumbers
    /\ student_data.grade.v = 55 /\ student_data.attendance.v = 65

CalcCallScenario ==
    /\ IsCalcCall
    /\ student = Student(PyInt(55), PyInt(65))

\* C15 as stated: for grade_average 55 and attendance_rate 65 the rule-based
\* fallback returns High Risk at every call site, predict.predict_student_risk
\* and predictor.calculate_risk_level alike.
C15_HighAtEveryCallSite ==
    (RuleCallScenario \/ CalcCallScenario) => ret.result.value = "High Risk"

\* C15, amended: for grade_average 55 and attendance_rate 65
\* predict.predict_student_risk (thresholds 60/70) returns High Risk, and
\* predictor.calculate_risk_level (thresholds 50/60, then 70/75) returns
\* Medium Risk.
C15_HighUnderDefaultThresholds ==
    /\ RuleCallScenario => ret.result = StrResult("High Risk")
    /\ CalcCallScenario => ret.result = StrResult("Medium Risk")

\* calculate_risk_level was called for grade_average 55 and attendance_rate
\* 65 and returned Medium Risk
C15_Witness ==
    /\ CalcCallScenario
    /\ ret.result.kind = "return"
    /\ ret.result.value = "Medium Risk"

\* C17: a call of predictor.predict_student_risk, on the classifier path
\* and on the fallback path, changes no field of the student, no row of the
\* students table (the stored risk_level included) and no file.
C17_PredictHasNoSideEffect ==
    [][(ret' # ret /\ ret'.fn = "predictor.predict_student_risk") =>
          /\ student' = student
          /\ roster' = roster /\ dbRisk' = dbRisk
          /\ modelFile' = modelFile /\ featureInfoFile' = featureInfoFile]_vars

\* predict_student_risk has answered from the classifier and the row of the
\* student still has no risk level stored
C17_Witness ==
    /\ IsPredictorCall
    /\ ret.path = "classifier"
    /\ ret.result.value = "High Risk"
    /\ roster = <<student>>
    /\ dbRisk = <<"None">>

\* the labels predict_student_risk can return for a student
PredictedLabels(s, file) ==
    {o.result.value : o \in {p \in predictor__predict_student_risk(s, file) :
                                p.result.kind = "return"}}

\* the students predict_student_risk returns a label for on either path
Predictable(s) == calculate_risk_level(s).kind = "return"

\* C18: when overlapping runs of update_all_student_risks have all ended,
\* whatever their interleaving, the risk_level of every student that can
\* be predicted is a prediction made for that student.
C18_FinalRiskIsPrediction ==
    (\A w \in Workers : runs[w].pc = "done") =>
        \A j \in Ids :
            Predictable(roster[j]) =>
                dbRisk[j] \in PredictedLabels(roster[j], modelFile)

IsPrepareCall == ret.fn = "predictor.prepare_prediction_data"
IsMetricsCall == ret.fn = "utils.calculate_academic_metrics"

\* C19: the missing_assignments feature is max(0, expected_total -
\* completed_count) for every student: 10 expected and 3 completed grades
\* give 7, it is never negative, and with nothing expected and nothing
\* completed it is 0.
C19_MissingAssignments ==
    IsPrepareCall =>
        LET expected  == ExpectedTotal(student)
            completed == Len(student.grades)
            missing   == ret.result.value.features.missing_assignments
        IN  /\ missing.den = 1
            /\ missing.num >= 0
            /\ expected >= completed => missing.num = expected - completed
            /\ expected < completed => missing.num = 0
            /\ (expected = 10 /\ completed = 3) => missing.num = 7
            /\ (expected = 0 /\ completed = 0) => missing.num = 0
            /\ ret.result.value.X[5] = missing

\* the features of a student with three grades and ten assignments in the
\* catalog were extracted, with seven missing assignments
C19_Witness ==
    /\ IsPrepareCall
    /\ student.catalog
    /\ Sum(student.enrollments) = 10
    /\ Len(student.grades) = 3
    /\ ret.result.value.features.missing_assignments = Frac(7, 1)

\* the student has no grade, no attendance record and no enrollment
EmptyHistory ==
    /\ student.grades = <<>>
    /\ student.attendance = <<>>
    /\ student.enrollments = <<>>

\* C20: for a student with no grade, no attendance record and no
\* enrollment, feature extraction returns a vector of six features, every
\* one of them 0, and calculate_academic_metrics returns a dict whose
\* every value is 0.
C20_EmptyHistoryZeroFeatures ==
    /\ (IsPrepareCall /\ EmptyHistory) =>
          /\ ret.result.kind = "return"
          /\ Len(ret.result.value.X) = 6
          /\ \A i \in 1 .. 6 : IsZero(ret.result.value.X[i])
          /\ LET f == ret.result.value.features
             IN  /\ IsZero(f.grade_average) /\ IsZero(f.attendance_rate)
                 /\ IsZero(f.recent_grade_average) /\ IsZero(f.grade_trend)
                 /\ IsZero(f.missing_assignments) /\ IsZero(f.course_count)
    /\ (IsMetricsCall /\ EmptyHistory) =>
          /\ ret.result.kind = "return"
          /\ LET m == ret.result.value
             IN  /\ IsZero(m.grade_average) /\ IsZero(m.grade_std_squared)
                 /\ IsZero(m.attendance_rate) /\ IsZero(m.total_assignments)
                 /\ IsZero(m.completion_rate)
                 /\ "grade_min" \notin m.keys /\ "grade_max" \notin m.keys

\* calculate_academic_metrics was called with no grade and no attendance
\* record and returned a grade_average and an attendance_rate of 0
C20_Witness ==
    /\ IsMetricsCall
    /\ EmptyHistory
    /\ ret.result.value.grade_average = Zero
    /\ ret.result.value.attendance_rate = Zero

\* C21: for every list of grades and every list of attendance records,
\* the attendance_rate calculate_academic_metrics returns is present_count
\* * 100 / total_count when there is at least one attendance record, and 0
\* when there is none.
C21_AttendanceRate ==
    IsMetricsCall =>
        LET rate    == ret.result.value.attendance_rate
            total   == Len(student.attendance)
            present == Present(student.attendance)
        IN  /\ rate.den # 0
            /\ total > 0 => rate.num * total = 100 * present * rate.den
            /\ total = 0 => rate.num = 0

IsSafeFloatCall == ret.fn = "utils.safe_float"

\* the values that are missing, None or spell no number
NotNumeric(x) == x.t \in {"missing", "None", "text"}

\* C22: safe_float, and the conversion of grade and attendance inside
\* predict.predict_student_risk, never raise, give 0 for a missing, None
\* or non-numeric value and give the value of a number unchanged.
C22_ConversionTolerant ==
    /\ IsSafeFloatCall =>
          /\ ret.result.kind = "return"
          /\ NotNumeric(student_data.grade) =>
                (ret.result.value.v = 0 /\ ~ret.result.value.nan)
          /\ student_data.grade.t = "int" =>
                ret.result.value.v = student_data.grade.v
    /\ (IsRuleCall /\ student_data.kind = "dict") =>
          \A x \in {DictGet(student_data, "grade", PyInt(0)),
                     DictGet(student_data, "attendance", PyInt(0))} :
              /\ FloatOrZero(x).exc = ""
              /\ NotNumeric(x) => FloatOrZero(x).v = 0
              /\ x.t = "int" => FloatOrZero(x).v = x.v

\* admin above teacher above viewer
RoleRank(r) ==
    CASE r = "admin" -> 3 [] r = "teacher" -> 2 [] r = "viewer" -> 1
      [] OTHER -> 0

IsHasRoleCall == ret.fn = "models.User.has_role"

\* C23: for every user role u and requested role r among admin, teacher
\* and viewer, has_role(r) is true iff u is r or a more privileged role.
C23_RoleHierarchy ==
    (IsHasRoleCall /\ args.role \in Roles /\ args.role_name \in Roles) =>
        (ret.result.value <=> RoleRank(args.role) >= RoleRank(args.role_name))

IsSemesterCall == ret.fn = "utils.calculate_semester_progress"

\* C24: calculate_semester_progress never raises and returns a value in
\* 0..100 for every start_date, end_date (equal to or before start_date
\* included) and current date: 0 before the start, 100 after the end.
C24_SemesterProgress ==
    IsSemesterCall =>
        /\ ret.result.kind = "return"
        /\ ret.result.value.den > 0
        /\ ret.result.value.num >= 0
        /\ ret.result.value.num <= 100 * ret.result.value.den
        /\ args.today < args.start_date => ret.result.value.num = 0
        /\ (args.end_date.t = "int" /\ args.today >= args.start_date
              /\ args.today > args.end_date.v) =>
               ret.result.value = Frac(100, 1)

IsReportCall == ret.fn = "utils.generate_student_report"

\* C29: generate_student_report returns without raising a report with a
\* non-empty list of recommendations for every student_data, one without
\* metrics or without grade_average or attendance_rate included; the entry
\* Continue current support is there iff none of grade_average < 60,
\* attendance_rate < 75 and risk level High Risk holds.
C29_ReportNeverRaises ==
    IsReportCall =>
        /\ ret.result.kind = "return"
        /\ Len(ret.result.value) > 0
        /\ LET grade      == IF args.has_metrics /\ args.grade_average.t = "int"
                             THEN args.grade_average.v ELSE 0
               attendance == IF args.has_metrics
                                 /\ args.attendance_rate.t = "int"
                             THEN args.attendance_rate.v ELSE 0
           IN  (\E i \in 1 .. Len(ret.result.value) :
                    ret.result.value[i] = "Continue current support")
               <=> ~(grade < 60 \/ attendance < 75
                       \/ args.level = "High Risk")

\* Low below Medium below High
Severity(label) ==
    CASE label = "High Risk" -> 2 [] label = "Medium Risk" -> 1
      [] label = "Low Risk" -> 0

IsPairCall ==
    /\ args.kind = "pair"
    /\ ret.fn \in {"predict.predict_student_risk",
                    "predictor.calculate_risk_level"}

\* C26: for both rule-based classifiers and all scores g1 <= g2 and
\* a1 <= a2, the label for (g1, a1) is at least as severe as the label for
\* (g2, a2).
C26_MonotoneSeverity ==
    (IsPairCall /\ args.g1 <= args.g2 /\ args.a1 <= args.a2) =>
        Severity(ret.result.value[1]) >= Severity(ret.result.value[2])

\* predict_student_risk was called for (59, 80) and for (60, 80) and
\* returned High Risk and Medium Risk
C26_Witness ==
    /\ IsPairCall
    /\ ret.fn = "predict.predict_student_risk"
    /\ args.g1 = 59 /\ args.a1 = 80 /\ args.g2 = 60 /\ args.a2 = 80
    /\ ret.result.value = <<"High Risk", "Medium Risk">>

IsRuleSetsCall == ret.fn = "rule sets"

\* C27: for every pair of scores calculate_risk_level returns a label no
\* more severe than the one predict.predict_student_risk returns, and the
\* risk level init_db.create_student_academic_data seeds is the label of
\* calculate_risk_level.
C27_ThresholdSetsOrdered ==
    IsRuleSetsCall =>
        /\ Severity(ret.result.value[2]) <= Severity(ret.result.value[1])
        /\ ret.result.value[3] = ret.result.value[2]

\* for grade 55 and attendance 65 predict.py gives High Risk, and
\* calculate_risk_level and init_db both give Medium Risk
C27_Witness ==
    /\ IsRuleSetsCall
    /\ args.grade = 55 /\ args.attendance = 65
    /\ ret.result.value = <<"High Risk", "Medium Risk", "Medium Risk">>

\* C25: update_all_student_risks commits once, after every student has
\* been processed: the persisted risk levels change only in that step and
\* become what predict_student_risk returned for each student, and a run
\* that fails on a student leaves every persisted risk level as it was.
C25_AllOrNothing ==
    [][/\ dbRisk' # dbRisk =>
             /\ upd.pc = "loop" /\ upd.i > Len(roster)
             /\ Len(upd.pending) = Len(roster)
             /\ dbRisk' = upd.pending
             /\ resp'.kind = "ok"
       /\ (upd.pc = "loop" /\ upd'.pc = "loop" /\ upd' # upd) =>
             /\ dbRisk' = dbRisk
             /\ upd'.i = upd.i + 1
             /\ \E l \in PredictedLabels(roster[upd.i], modelFile) :
                    upd'.pending = Append(upd.pending, l)
       /\ (upd.pc = "loop" /\ resp'.kind = "error") => dbRisk' = dbRisk
      ]_vars

\* a run failed on the second of two students after the first had been
\* given a risk level, and no risk level is persisted
C25_Witness ==
    /\ Len(roster) = 2
    /\ resp.kind = "error" /\ resp.failed = 2
    /\ upd.pc = "idle"
    /\ dbRisk = <<"None", "None">>

\* C28: after any sequence of send attempts the status of a notification
\* is sent iff its sent_at is set: a notification that failed or was not
\* sent yet has no sent_at.
C28_SentIffSentAt ==
    notify.status # "" =>
        ((notify.status = "sent") <=> (notify.sent_at.t # "None"))

=============================================================================
